---- MODULE Spec2Model ----
(***************************************************************************)
(* pihub module runtime: the ManagerAgent (live module table,              *)
(* InitializeModules, Act) and the drivers of the module library, as       *)
(* served by net/http with one goroutine per request.                      *)
(*                                                                         *)
(* The manager is the latest iteration in src/unnamed/part_004 (the        *)
(* Binder-based runtime, lines 442-717; src/main.go has the same           *)
(* InitializeModules/Act bodies), the drivers are those of                 *)
(* src/unnamed/part_002 lines 1-483.  The ServiceAgent is followed in both  *)
(* of its iterations: the one of src/main.go, which opens its resources    *)
(* on demand, and the one of part_004, constructed by NewServiceProvider.  *)
(* JSONBinder.BindData (part_004 lines 693-717) is followed phase by       *)
(* phase on the config types of the drivers.                               *)
(* The relay driver (both iterations) and the HTG3535CH driver are         *)
(* followed with the values they compute, and so are the packages          *)
(* src/pkg/am2301 (Check, Parse, Valid) and src/pkg/gpio (WaitChange).     *)
(***************************************************************************)
EXTENDS Integers, Sequences, FiniteSets, TLC

(* ---------------------------- bounds ---------------------------------- *)
\* request goroutines that may be in flight at once
NumWorkers == 2
\* driver instances constructed over one run
MaxInst == 4

\* calls made on the ServiceAgent over one run
MaxCalls == 3

Workers == 1..NumWorkers

(* ------------------------ inputs of requests -------------------------- *)
\* module names clients use in initialize requests
Names == {"fan", "x"}
\* module names clients use in act requests ("missing" is never initialized)
ActNames == Names \cup {"missing"}
\* module sources the serial client uses ("bogus" is not registered)
ReqSources == {"echo", "relay", "hcsro4", "bogus"}
\* classes of config payloads:
\*   valid      well-formed JSON with the fields the target needs
\*   incomplete well-formed JSON that lacks the required fields
\*   malformed  a body the JSON decoder rejects; an absent payload is one
\*              (the decoder reads an empty body and returns io.EOF)
Payloads == {"valid", "incomplete", "malformed"}
\* the sources and payloads the concurrent clients use
ConcSources == {"hcsro4", "bogus"}
ConcPayloads == {"valid"}
\* action names clients use
ActionNames == {"set", "read_meters", "bogus"}
\* the sources, payloads and actions of the clients of a relay and of an
\* HTG3535CH sensor (two modules that share no pin and no channel)
DrvSources == {"relay", "htg3535ch"}
DrvPayloads == {"valid"}
DrvActions == {"set", "rh", "calibrate"}
\* the sources, payloads and actions of the client of an I2C device
I2CSources == {"i2c", "bogus"}
I2CPayloads == {"valid", "malformed"}
I2CActions == {"transact", "bogus"}

\* bus addresses and pin numbers callers ask the ServiceAgent for
Addrs == {72, 73}
PinNumbers == {17, 18}
\* pin names callers ask for, and the pins the platform registers by name
\* ("nope" is no pin of the platform)
PinNames == {"18", "GPIO17", "nope"}
PinRegistry == [n \in {"GPIO17", "GPIO18"} |-> IF n = "GPIO17" THEN 17 ELSE 18]

(* --------------------------- the registry ----------------------------- *)
ModuleIndex == {"echo", "relay", "htg3535ch", "i2c", "ads", "servo", "hcsro4"}

(* ---------------------------- the binder ------------------------------ *)
\* config types that implement Validator
HasValidator(kind) == kind \in {"servo", "hcsro4"}

\* JSONBinder.BindData: decode, then validate when the target validates
BindData(payload, validates) ==
    IF payload = "malformed" THEN "DecodeError"
    ELSE IF validates /\ payload = "incomplete" THEN "ValidationError"
    ELSE "nil"

(* ---------------------------- the drivers ----------------------------- *)
\* Outcomes of Module.Initialize for a driver kind and a config payload:
\* err is the returned error class, hw tells whether the instance's
\* hardware handles are non-nil afterwards.  Several outcomes: the choice
\* is the hardware's (pin unknown, pin or bus failing).
InitOutcomes(kind, payload) ==
    LET b == BindData(payload, HasValidator(kind)) IN
    CASE kind = "echo" -> {[err |-> "nil", hw |-> TRUE]}
      [] kind = "relay" ->
            IF b # "nil" THEN {[err |-> b, hw |-> FALSE]}
            ELSE IF payload = "incomplete"
                 \* Pin is "": gpioreg.ByName finds nothing
                 THEN {[err |-> "HardwareError", hw |-> FALSE]}
                 ELSE {[err |-> "nil", hw |-> TRUE],
                       [err |-> "HardwareError", hw |-> FALSE]}
      [] kind \in {"servo", "hcsro4"} ->
            IF b # "nil" THEN {[err |-> b, hw |-> FALSE]}
            \* GetGPIOByName returns a nil error always, and a nil pin
            \* for a name gpioreg does not know
            ELSE {[err |-> "nil", hw |-> TRUE], [err |-> "nil", hw |-> FALSE]}
      [] kind = "i2c" ->
            IF b # "nil" THEN {[err |-> b, hw |-> FALSE]}
            \* GetDefaultI2CBus returns a nil error always; the bus is nil
            \* when it could not be opened at startup
            ELSE {[err |-> "nil", hw |-> TRUE], [err |-> "nil", hw |-> FALSE]}
      [] kind \in {"ads", "htg3535ch"} ->
            IF b # "nil" THEN {[err |-> b, hw |-> FALSE]}
            ELSE {[err |-> "nil", hw |-> TRUE],
                  [err |-> "HardwareError", hw |-> FALSE]}

\* accesses of a driver's Act to a field of its instance that another Act
\* on the instance may touch: the load and the store of m.rhAdjustment
FieldOps == {"load m.rhAdjustment", "store m.rhAdjustment"}

\* The hardware operations of a driver's Act and its accesses to shared
\* fields of the instance, in program order.  A calibrate request that
\* carries rh_adjustment ("valid") stores it without reading the sensor;
\* one that omits it ("incomplete") reads the sensor first.
HwOps(kind, action, payload) ==
    CASE kind = "relay" /\ action = "set" -> <<"pin.Out">>
      [] kind = "servo" /\ action = "set" -> <<"pin.PWM">>
      [] kind = "i2c" /\ action = "transact" -> <<"dvc.Tx">>
      [] kind = "ads" /\ action = "read" -> <<"pin.Read">>
      [] kind = "htg3535ch" /\ action = "rh" ->
            <<"pin.Read", "load m.rhAdjustment">>
      [] kind = "htg3535ch" /\ action \in {"tk", "tc", "tf"} -> <<"pin.Read">>
      [] kind = "htg3535ch" /\ action = "calibrate" ->
            IF payload = "valid" THEN <<"store m.rhAdjustment">>
            ELSE <<"pin.Read", "store m.rhAdjustment">>
      [] kind = "hcsro4" /\ action = "read_meters" ->
            <<"trigger.Out", "trigger.Out", "trigger.Out",
              "echo.In", "echo.WaitForEdge", "echo.In", "echo.WaitForEdge">>
      [] OTHER -> <<>>

\* the actions a driver's switch recognizes (echo has no switch)
Recognized(kind) ==
    CASE kind = "relay" -> {"set"}
      [] kind = "servo" -> {"set"}
      [] kind = "i2c" -> {"transact"}
      [] kind = "ads" -> {"read"}
      [] kind = "htg3535ch" -> {"rh", "tk", "tc", "tf", "calibrate"}
      [] kind = "hcsro4" -> {"read_meters"}
      [] OTHER -> {}

\* the result of EchoModule.Act once the body is bound: the action it was
\* given and the value the binder decoded from the payload
EchoResult(action, payload) == [action |-> action, config |-> payload]

\* drivers whose Act binds the request body before the switch on the action
BindsFirst(kind) == kind \in {"echo", "relay", "i2c"}

\* drivers whose recognized action binds the request body inside its case
BindsInCase(kind, action) ==
    \/ kind = "servo" /\ action = "set"
    \/ kind = "htg3535ch" /\ action = "calibrate"

\* Entry of a driver's Act up to its first hardware operation: the error it
\* returns at once, or "run" when it goes on to its hardware operations,
\* or "nil" when it returns a result without any (echo).
ActEntry(kind, action, payload) ==
    LET b == BindData(payload, FALSE) IN
    IF BindsFirst(kind) /\ b # "nil" THEN b
    ELSE IF kind = "echo" THEN "nil"
    ELSE IF action \notin Recognized(kind) THEN "UnknownAction"
    ELSE IF BindsInCase(kind, action) /\ b # "nil" THEN b
    ELSE "run"

(* ----------------------------- the state ------------------------------ *)
VARIABLES
    Modules,    \* ManagerAgent.Modules: module name -> instance
    inst,       \* the driver instances constructed so far, by identity
    stopped,    \* the instances on which Stop() has been called
    req,        \* per request goroutine: the request it serves and where it is
    client,     \* how requests arrive: "serial" (one after the other),
                \* "concurrent" (net/http serves each on its own goroutine),
                \* "drivers" (configured once, then acted on concurrently),
                \* "i2c" (serial, to I2C devices);
                \* "provider", "binder" and "relay" when the ServiceAgent,
                \* one BindData call or the relay driver is followed on
                \* its own; "lazy" when the first ServiceAgent is called
                \* concurrently; "htg", "parse", "wait" and "am2301" when
                \* a sensor is followed on its own
    agent,      \* the ServiceAgent: its fields
    rets,       \* the calls made on the ServiceAgent so far, with what each
                \* returned and the library call it made
    bind,       \* a JSONBinder.BindData call: its target, the request body,
                \* the phase it is in and the target's value
    relay,      \* a RelayModule and the Act it serves: the iteration of
                \* the driver, the request, the level of its pin
    sensor      \* a sensor followed on its own: an HTGModule and the Act it
                \* serves, an am2301 Impl and its callers, or a pin that
                \* WaitChange polls

vars == <<Modules, inst, stopped, req, client, agent, rets, bind, relay, sensor>>

\* the provider's state: no method of the manager or of a driver writes it
provider == <<agent, rets>>

Idle == [pc |-> "idle"]

Range(f) == {f[k] : k \in DOMAIN f}

\* the sources, payloads and actions of the requests of this run
SourcesUsed ==
    CASE client = "serial" -> ReqSources
      [] client = "drivers" -> DrvSources
      [] client = "i2c" -> I2CSources
      [] OTHER -> ConcSources
PayloadsUsed ==
    CASE client = "serial" -> Payloads
      [] client = "drivers" -> DrvPayloads
      [] client = "i2c" -> I2CPayloads
      [] OTHER -> ConcPayloads
ActionsUsed ==
    CASE client = "drivers" -> DrvActions
      [] client = "i2c" -> I2CActions
      [] OTHER -> ActionNames

\* the sets of module specs of an initialize request
SpecSets ==
    UNION {[D -> [source : SourcesUsed, config : PayloadsUsed]] : D \in SUBSET Names}

InitPcs == {"init_loop", "init_call"}

\* worker w may take up a request: the serial client sends one only when
\* the previous one has been answered, so one goroutine serves them all;
\* the clients of the drivers act only while no initialize request is
\* being served
Admit(w) ==
    /\ client \in {"serial", "i2c"} => w = 1
    /\ client = "drivers" => \A v \in Workers : req[v].pc \notin InitPcs

\* worker w may take up an initialize request: the drivers are configured
\* once, before any other request is served
AdmitInit(w) ==
    /\ Admit(w)
    /\ client = "drivers" => inst = <<>> /\ \A v \in Workers : req[v].pc = "idle"

\* instances that initialize requests in flight may still construct
Pending ==
    LET RECURSIVE Sum(_)
        Sum(S) == IF S = {} THEN 0
                  ELSE LET w == CHOOSE v \in S : TRUE IN
                       (IF req[w].pc \in InitPcs
                        THEN Cardinality(req[w].remaining) ELSE 0)
                       + Sum(S \ {w})
    IN Sum(Workers)

\* buildMux: an empty table, no request in flight
Start ==
    /\ Modules = <<>>
    /\ inst = <<>>
    /\ stopped = {}
    /\ req = [w \in Workers |-> Idle]

\* the ServiceAgent as constructed: `&ServiceAgent{}` in src/main.go (the
\* zero values), NewServiceProvider in the later iterations, which opens the
\* default bus at once and keeps nil (0) when that fails
NewAgent(bus) == [gpioInitted |-> FALSE, i2c |-> 0, defaultI2CBus |-> bus]

\* no BindData call is followed field by field
NoBind == [pc |-> "none"]

\* no relay driver is followed on its own
NoRelay == [pc |-> "none"]

\* no sensor is followed on its own
NoSensor == [pc |-> "none"]

\* the manager is served by a provider whose bus opened at startup
StartMgr ==
    /\ Start
    /\ agent = NewAgent(1)
    /\ rets = <<>>
    /\ bind = NoBind
    /\ relay = NoRelay
    /\ sensor = NoSensor

Init == StartMgr /\ client = "concurrent"

InitSeq == StartMgr /\ client = "serial"

InitDrv == StartMgr /\ client = "drivers"

\* the manager served by a provider whose bus opened at startup or did not
InitI2C ==
    /\ Start
    /\ agent \in {NewAgent(0), NewAgent(1)}
    /\ rets = <<>>
    /\ bind = NoBind
    /\ relay = NoRelay
    /\ sensor = NoSensor
    /\ client = "i2c"

\* The outcomes of a driver's Initialize under the provider as it is: an
\* I2CModule keeps the bus GetDefaultI2CBus returns, nil when the bus was
\* not opened at startup.
Provided(kind, outcomes) ==
    IF kind = "i2c"
    THEN {o \in outcomes : o.err # "nil" \/ o.hw = (agent.defaultI2CBus # 0)}
    ELSE outcomes

(* ------------------------ InitializeModules --------------------------- *)
\* the /initialize handler calls mgr.InitializeModules(req.Modules)
StartInit(w, specs) ==
    /\ req[w].pc = "idle"
    /\ AdmitInit(w)
    /\ Len(inst) + Pending + Cardinality(DOMAIN specs) <= MaxInst
    /\ req' = [req EXCEPT ![w] =
                 [pc |-> "init_loop", kind |-> "init", specs |-> specs,
                  remaining |-> DOMAIN specs, cur |-> "", before |-> Modules,
                  built |-> {}, err |-> "nil"]]
    /\ UNCHANGED <<Modules, inst, stopped, client, provider, bind, relay, sensor>>

\* one iteration of `for name, spec := range specs` up to the call of
\* Initialize: Go ranges over a map in an unspecified order
InitNext(w) ==
    /\ req[w].pc = "init_loop"
    /\ \E name \in req[w].remaining :
         LET spec == req[w].specs[name] IN
         IF spec.source \in ModuleIndex
         THEN \* a.Modules[name] = factory()
              /\ inst' = Append(inst, [kind |-> spec.source,
                                       state |-> "Uninitialized", hw |-> FALSE])
              /\ Modules' = [n \in DOMAIN Modules \cup {name} |->
                               IF n = name THEN Len(inst) + 1 ELSE Modules[n]]
              /\ req' = [req EXCEPT ![w].pc = "init_call",
                                    ![w].cur = name,
                                    ![w].remaining = @ \ {name},
                                    ![w].built = @ \cup {Len(inst) + 1}]
         ELSE \* return fmt.Errorf("404 no such module source: %s", ...)
              /\ req' = [req EXCEPT ![w].pc = "done",
                                    ![w].cur = name,
                                    ![w].remaining = @ \ {name},
                                    ![w].err = "UnknownSource"]
              /\ UNCHANGED <<Modules, inst>>
    /\ UNCHANGED <<stopped, client, provider, bind, relay, sensor>>

\* a.Modules[name].Initialize(a.ServiceProvider, binder): the instance is
\* read from the table again, and Initialize runs to its return
InitCall(w) ==
    /\ req[w].pc = "init_call"
    /\ LET i == Modules[req[w].cur]
           payload == req[w].specs[req[w].cur].config
       IN \E o \in Provided(inst[i].kind, InitOutcomes(inst[i].kind, payload)) :
            /\ inst' = [inst EXCEPT ![i].state =
                                      IF o.err = "nil" THEN "Ready" ELSE "Failed",
                                    ![i].hw =
                                      IF o.err = "nil" THEN o.hw ELSE @]
            /\ req' = [req EXCEPT ![w].pc =
                                    IF o.err = "nil" THEN "init_loop" ELSE "done",
                                  ![w].err = o.err]
    /\ UNCHANGED <<Modules, stopped, client, provider, bind, relay, sensor>>

\* the range is exhausted: return nil
InitReturn(w) ==
    /\ req[w].pc = "init_loop"
    /\ req[w].remaining = {}
    /\ req' = [req EXCEPT ![w].pc = "done"]
    /\ UNCHANGED <<Modules, inst, stopped, client, provider, bind, relay, sensor>>

(* ------------------------------- Act ---------------------------------- *)
\* a lookup that falls back to some live module when the name is absent
LookupFallback(table, module) ==
    IF module \in DOMAIN table THEN table[module]
    ELSE IF DOMAIN table = {} THEN 0
    ELSE table[CHOOSE n \in DOMAIN table : TRUE]

\* `mod, ok := a.Modules[module]`: the instance, or 0 when absent
Lookup(table, module) ==
    IF module \in DOMAIN table THEN table[module] ELSE 0

\* an Act that takes a lock on the whole table and holds it until the
\* driver's Act has returned
ActLocked(w, module, action, payload) ==
    /\ req[w].pc = "idle"
    /\ Admit(w)
    /\ \A v \in Workers \ {w} : req[v].pc # "hw"
    /\ LET t == Lookup(Modules, module)
           e == IF t = 0 THEN "UnknownModule"
                ELSE ActEntry(inst[t].kind, action, payload)
       IN req' = [req EXCEPT ![w] =
                    [pc |-> IF e = "run" THEN "hw" ELSE "done",
                     kind |-> "act", module |-> module, action |-> action,
                     config |-> payload, target |-> t,
                     calls |-> IF t = 0 THEN {} ELSE {t},
                     nops |-> 0, failed |-> FALSE,
                     err |-> IF e = "run" THEN "nil" ELSE e]]
    /\ UNCHANGED <<Modules, inst, stopped, client, provider, bind, relay, sensor>>

\* ManagerAgent.Act: look the module up and enter the driver's Act, up to
\* its first hardware operation
Act(w, module, action, payload) ==
    /\ req[w].pc = "idle"
    /\ Admit(w)
    /\ LET t == Lookup(Modules, module)
           e == IF t = 0 THEN "UnknownModule"
                ELSE ActEntry(inst[t].kind, action, payload)
       IN req' = [req EXCEPT ![w] =
                    [pc |-> IF e = "run" THEN "hw" ELSE "done",
                     kind |-> "act", module |-> module, action |-> action,
                     config |-> payload, target |-> t,
                     calls |-> IF t = 0 THEN {} ELSE {t},
                     nops |-> 0, failed |-> FALSE,
                     err |-> IF e = "run" THEN "nil" ELSE e]]
    /\ UNCHANGED <<Modules, inst, stopped, client, provider, bind, relay, sensor>>

\* operations whose failure the driver returns as an error
Checked(kind, op) ==
    \/ op \in {"pin.Out", "pin.PWM", "dvc.Tx", "pin.Read"}
    \/ op = "echo.WaitForEdge"

\* `val, err := m.rh.Read(); return val + m.rhAdjustment, err`: the error
\* of the read is returned after the load of the adjustment
Deferred(kind, action, op) ==
    kind = "htg3535ch" /\ action = "rh" /\ op = "pin.Read"

\* the next hardware operation or field access of a driver's Act
HwStep(w) ==
    /\ req[w].pc = "hw"
    /\ LET t == req[w].target
           ops == HwOps(inst[t].kind, req[w].action, req[w].config)
           k == req[w].nops + 1
           op == ops[k]
       IN IF ~inst[t].hw /\ op \notin FieldOps
          THEN \* the handle is nil: the call panics, net/http recovers it
               req' = [req EXCEPT ![w].pc = "done", ![w].err = "panic"]
          ELSE \E ok \in BOOLEAN :
                 \/ /\ ok \/ ~Checked(inst[t].kind, op)
                    \* an operation whose error the driver drops fails
                    \* unnoticed
                    /\ req' = [req EXCEPT ![w].nops = k,
                                          ![w].failed = @ \/ (~ok /\ op \notin FieldOps),
                                          ![w].pc = IF k = Len(ops)
                                                    THEN "done" ELSE "hw"]
                 \/ /\ ~ok /\ Checked(inst[t].kind, op)
                    \* the first edge wait fails the read, the second one
                    \* returns (nil, nil): no object in range
                    /\ req' = [req EXCEPT ![w].nops = k,
                                          ![w].failed = @ \/ ~(op = "echo.WaitForEdge" /\ k = Len(ops)),
                                          ![w].pc =
                                            IF Deferred(inst[t].kind, req[w].action, op)
                                            THEN "hw" ELSE "done",
                                          ![w].err =
                                            IF op = "echo.WaitForEdge" /\ k = Len(ops)
                                            THEN "nil" ELSE "HardwareError"]
    /\ UNCHANGED <<Modules, inst, stopped, client, provider, bind, relay, sensor>>

\* what is left of an instance nothing refers to any more
Collected == [kind |-> "", state |-> "Collected", hw |-> FALSE]

\* the instances a request in flight refers to
Refs(v) ==
    IF req[v].pc = "idle" THEN {}
    ELSE IF req[v].kind = "init" THEN req[v].built \cup Range(req[v].before)
    ELSE {req[v].target} \ {0}

\* The handler has written its response and its goroutine ends; the
\* instances that neither the table nor another request refers to are
\* garbage from here on.
Return(w) ==
    /\ req[w].pc = "done"
    /\ req' = [req EXCEPT ![w] = Idle]
    /\ LET keep == Range(Modules) \cup UNION {Refs(v) : v \in Workers \ {w}}
       IN inst' = [i \in DOMAIN inst |->
                     IF i \in keep THEN inst[i] ELSE Collected]
    /\ UNCHANGED <<Modules, stopped, client, provider, bind, relay, sensor>>

\* the errors JSONBinder.BindData returns, wrapped in InputError
InputErrors == {"DecodeError", "ValidationError"}

\* The status of the /act handler's response for what mgr.Act returned:
\* 200 on success (the default of the first write), 400 when errors.As
\* finds an InputError (the WriteHeader(500) the handler falls through to
\* comes after the header is written and changes nothing), 500 for any
\* other error.  A panic of the driver unwinds the handler: net/http
\* recovers it and closes the connection, no response is written (0).
ActStatus(err) ==
    CASE err = "nil" -> 200
      [] err \in InputErrors -> 400
      [] err = "panic" -> 0
      [] OTHER -> 500

\* The status of the /initialize handler's response for what
\* mgr.InitializeModules returned: 500 for any error, 200 otherwise.
InitStatus(err) == IF err = "nil" THEN 200 ELSE 500

\* `InitializeResponse{NumModules: len(mgr.Modules)}`, evaluated by the
\* handler once InitializeModules has returned nil
NumModules == Cardinality(DOMAIN Modules)

\* What the /initialize handler writes to its ResponseWriter, in order: a
\* bare WriteHeader(500) for any error, the encoded InitializeResponse
\* otherwise.
InitWrites(err) ==
    IF err = "nil" THEN <<[op |-> "Encode", arg |-> "num_modules"]>>
    ELSE <<[op |-> "WriteHeader", arg |-> "500"]>>

\* What the /act handler writes to its ResponseWriter, in order.  The
\* branch for an InputError does not return: the handler goes on to the
\* WriteHeader(500) and the second Encode of the general branch.  A panic
\* unwinds the handler before it writes.
ActWrites(err) ==
    CASE err = "nil" -> <<[op |-> "Encode", arg |-> "result"]>>
      [] err \in InputErrors ->
            <<[op |-> "WriteHeader", arg |-> "400"],
              [op |-> "Encode", arg |-> "mesage"],
              [op |-> "WriteHeader", arg |-> "500"],
              [op |-> "Encode", arg |-> "mesage"]>>
      [] err = "panic" -> <<>>
      [] OTHER ->
            <<[op |-> "WriteHeader", arg |-> "500"],
              [op |-> "Encode", arg |-> "mesage"]>>

(* ------------------------- specifications ----------------------------- *)
Next ==
    \E w \in Workers :
        \/ \E specs \in SpecSets : StartInit(w, specs)
        \/ InitNext(w)
        \/ InitCall(w)
        \/ InitReturn(w)
        \/ \E m \in ActNames, a \in ActionsUsed, p \in PayloadsUsed : Act(w, m, a, p)
        \/ HwStep(w)
        \/ Return(w)

\* requests served concurrently, one goroutine each
Spec == Init /\ [][Next]_vars

\* a client that sends its requests one after the other
SpecSeq == InitSeq /\ [][Next]_vars

\* concurrent clients of a relay and of an HTG3535CH sensor
SpecDrv == InitDrv /\ [][Next]_vars

\* a serial client of I2C devices
SpecI2C == InitI2C /\ [][Next]_vars

(* ------------------------- the ServiceAgent --------------------------- *)
\* the handles of the buses opened so far
BusesOpened ==
    (IF agent.defaultI2CBus # 0 THEN 1 ELSE 0)
    + Cardinality({i \in DOMAIN rets : rets[i].lib = "i2creg.Open ok"})

\* a GetI2CDevice that opens the bus on every call
GetI2CDeviceReopen(addr) ==
    /\ Len(rets) < MaxCalls
    /\ \E hostOk, openOk \in BOOLEAN :
         IF ~hostOk
         THEN /\ rets' = Append(rets, [call |-> "GetI2CDevice", arg |-> addr, ret |-> 0,
                                       err |-> "HostError", lib |-> "none"])
              /\ UNCHANGED agent
         ELSE IF ~openOk
              THEN /\ rets' = Append(rets, [call |-> "GetI2CDevice", arg |-> addr, ret |-> 0,
                                            err |-> "OpenError",
                                            lib |-> "i2creg.Open failed"])
                   /\ UNCHANGED agent
              ELSE /\ agent' = [agent EXCEPT !.i2c = BusesOpened + 1]
                   /\ rets' = Append(rets, [call |-> "GetI2CDevice", arg |-> addr,
                                            ret |-> BusesOpened + 1, err |-> "nil",
                                            lib |-> "i2creg.Open ok"])
    /\ UNCHANGED <<Modules, inst, stopped, req, client, bind, relay, sensor>>

\* ServiceAgent.GetI2CDevice (src/main.go): host.Init(), then the bus is
\* opened when a.i2c is nil and kept in a.i2c; the device returned wraps
\* a.i2c.  ret is the bus of the device (0: no device).
GetI2CDevice(addr) ==
    /\ Len(rets) < MaxCalls
    /\ \E hostOk, openOk \in BOOLEAN :
         IF ~hostOk
         THEN /\ rets' = Append(rets, [call |-> "GetI2CDevice", arg |-> addr, ret |-> 0,
                                       err |-> "HostError", lib |-> "none"])
              /\ UNCHANGED agent
         ELSE IF agent.i2c # 0
              THEN /\ rets' = Append(rets, [call |-> "GetI2CDevice", arg |-> addr,
                                            ret |-> agent.i2c, err |-> "nil",
                                            lib |-> "none"])
                   /\ UNCHANGED agent
              ELSE IF ~openOk
                   THEN /\ rets' = Append(rets, [call |-> "GetI2CDevice", arg |-> addr,
                                                 ret |-> 0, err |-> "OpenError",
                                                 lib |-> "i2creg.Open failed"])
                        /\ UNCHANGED agent
                   ELSE /\ agent' = [agent EXCEPT !.i2c = BusesOpened + 1]
                        /\ rets' = Append(rets, [call |-> "GetI2CDevice", arg |-> addr,
                                                 ret |-> BusesOpened + 1, err |-> "nil",
                                                 lib |-> "i2creg.Open ok"])
    /\ UNCHANGED <<Modules, inst, stopped, req, client, bind, relay, sensor>>

\* ServiceAgent.GetGPIOPin (src/main.go): gpio.Setup() (rpio.Open) when
\* a.gpioInitted is false, then gpio.PinRef(p); nothing sets a.gpioInitted
GetGPIOPin(p) ==
    /\ Len(rets) < MaxCalls
    /\ \E setupOk \in BOOLEAN :
         IF agent.gpioInitted
         THEN rets' = Append(rets, [call |-> "GetGPIOPin", arg |-> p, ret |-> p,
                                    err |-> "nil", lib |-> "none"])
         ELSE IF ~setupOk
              THEN rets' = Append(rets, [call |-> "GetGPIOPin", arg |-> p, ret |-> 0,
                                         err |-> "SetupError",
                                         lib |-> "gpio.Setup failed"])
              ELSE rets' = Append(rets, [call |-> "GetGPIOPin", arg |-> p, ret |-> p,
                                         err |-> "nil", lib |-> "gpio.Setup ok"])
    /\ UNCHANGED <<Modules, inst, stopped, req, client, agent, bind, relay, sensor>>

\* ServiceAgent.GetDefaultI2CBus: `return a.defaultI2CBus, nil`
GetDefaultI2CBus ==
    /\ Len(rets) < MaxCalls
    /\ rets' = Append(rets, [call |-> "GetDefaultI2CBus", arg |-> 0,
                             ret |-> agent.defaultI2CBus, err |-> "nil",
                             lib |-> "none"])
    /\ UNCHANGED <<Modules, inst, stopped, req, client, agent, bind, relay, sensor>>

\* gpioreg.ByName: the pin registered under the name, or nil (0)
ByName(name) == IF name \in DOMAIN PinRegistry THEN PinRegistry[name] ELSE 0

\* ServiceAgent.GetGPIOByName: GPIO18 for "18", gpioreg.ByName otherwise,
\* and a nil error in both cases
GetGPIOByName(name) ==
    /\ Len(rets) < MaxCalls
    /\ rets' = Append(rets, [call |-> "GetGPIOByName", arg |-> name,
                             ret |-> IF name = "18" THEN 18 ELSE ByName(name),
                             err |-> "nil", lib |-> "none"])
    /\ UNCHANGED <<Modules, inst, stopped, req, client, agent, bind, relay, sensor>>

NextAgent ==
    \/ \E addr \in Addrs : GetI2CDevice(addr)
    \/ \E p \in PinNumbers : GetGPIOPin(p)
    \/ GetDefaultI2CBus
    \/ \E name \in PinNames : GetGPIOByName(name)

\* the bus may or may not have opened at startup
InitAgent ==
    /\ Start
    /\ client = "provider"
    /\ agent \in {NewAgent(0), NewAgent(1)}
    /\ rets = <<>>
    /\ bind = NoBind
    /\ relay = NoRelay
    /\ sensor = NoSensor

\* callers of the ServiceAgent, one call after the other
SpecAgent == InitAgent /\ [][NextAgent]_vars

(* ------------- the lazy ServiceAgent, called concurrently ------------- *)
\* GetI2CDevice of src/main.go statement by statement, each caller on its
\* own goroutine (one per request being served); the agent has no lock.
InFlight == {w \in Workers : req[w].pc # "idle"}

\* buses opened by calls that have not returned yet
OpenedInFlight == {w \in InFlight : req[w].b # 0}

\* `if _, err := host.Init(); err != nil { return nil, err }`
DevEnter(w, addr) ==
    /\ req[w].pc = "idle"
    /\ Len(rets) + Cardinality(InFlight) < MaxCalls
    /\ \E hostOk \in BOOLEAN :
         req' = [req EXCEPT ![w] =
                   [kind |-> "getdev", addr |-> addr, b |-> 0,
                    pc |-> IF hostOk THEN "check" ELSE "return",
                    err |-> IF hostOk THEN "nil" ELSE "HostError"]]
    /\ UNCHANGED <<Modules, inst, stopped, client, provider, bind, relay, sensor>>

\* `if a.i2c == nil {`: the load of the field
DevCheck(w) ==
    /\ req[w].pc = "check"
    /\ req' = [req EXCEPT ![w].pc = IF agent.i2c = 0 THEN "open" ELSE "return"]
    /\ UNCHANGED <<Modules, inst, stopped, client, provider, bind, relay, sensor>>

\* `b, err := i2creg.Open(""); if err != nil { return nil, err }`
DevOpen(w) ==
    /\ req[w].pc = "open"
    /\ \E openOk \in BOOLEAN :
         req' = IF openOk
                THEN [req EXCEPT ![w].pc = "store",
                                 ![w].b = BusesOpened
                                          + Cardinality(OpenedInFlight) + 1]
                ELSE [req EXCEPT ![w].pc = "return", ![w].err = "OpenError"]
    /\ UNCHANGED <<Modules, inst, stopped, client, provider, bind, relay, sensor>>

\* `a.i2c = b`
DevStore(w) ==
    /\ req[w].pc = "store"
    /\ agent' = [agent EXCEPT !.i2c = req[w].b]
    /\ req' = [req EXCEPT ![w].pc = "return"]
    /\ UNCHANGED <<Modules, inst, stopped, client, rets, bind, relay, sensor>>

\* `return &i2c.Dev{Bus: a.i2c, Addr: addr}, nil`, or the error return
DevReturn(w) ==
    /\ req[w].pc = "return"
    /\ rets' = Append(rets,
                 [call |-> "GetI2CDevice", arg |-> req[w].addr,
                  ret |-> IF req[w].err = "nil" THEN agent.i2c ELSE 0,
                  err |-> req[w].err,
                  lib |-> CASE req[w].b # 0 -> "i2creg.Open ok"
                            [] req[w].err = "OpenError" -> "i2creg.Open failed"
                            [] OTHER -> "none"])
    /\ req' = [req EXCEPT ![w] = Idle]
    /\ UNCHANGED <<Modules, inst, stopped, client, agent, bind, relay, sensor>>

NextLazy ==
    \E w \in Workers :
        \/ \E addr \in Addrs : DevEnter(w, addr)
        \/ DevCheck(w)
        \/ DevOpen(w)
        \/ DevStore(w)
        \/ DevReturn(w)

\* `&ServiceAgent{}`: the zero values
InitLazy ==
    /\ Start
    /\ client = "lazy"
    /\ agent = NewAgent(0)
    /\ rets = <<>>
    /\ bind = NoBind
    /\ relay = NoRelay
    /\ sensor = NoSensor

\* concurrent callers of the lazy ServiceAgent
SpecLazy == InitLazy /\ [][NextLazy]_vars

(* ------------------- the binder, field by field ----------------------- *)
\* the config types followed: the JSON keys of their fields
Targets == {"ServoModuleConfig", "HCSRO4Config", "RelayModuleConfig"}

Fields(target) ==
    CASE target = "ServoModuleConfig" ->
            {"pin", "frequenzy_hz", "duty_ratio_p90", "duty_ratio_n90"}
      [] target = "HCSRO4Config" ->
            {"trigger_pin", "echo_pin", "speed_of_sound_mpms"}
      [] target = "RelayModuleConfig" -> {"pin"}
      [] target = "RelaySetRequest" -> {"high"}
      [] target = "HTGCalibrateRequest" -> {"true_value", "rh_adjustment"}

\* the Go type of a field: string, bool, number (int64, float64) or pointer
\* to a number (*float64)
FieldType(key) ==
    CASE key \in {"pin", "trigger_pin", "echo_pin"} -> "string"
      [] key = "high" -> "bool"
      [] key \in {"speed_of_sound_mpms", "true_value", "rh_adjustment"} -> "*number"
      [] OTHER -> "number"

\* the JSON values a request gives a key, as written; numbers are kept in
\* hundredths, a *float64 as the sequence of what it points to
Tokens == {"null", "0", "60", "\"\"", "\"GPIO17\""}

TokenType(tok) ==
    CASE tok = "null" -> "null"
      [] tok \in {"0", "60"} -> "number"
      [] tok \in {"true", "false"} -> "bool"
      [] OTHER -> "string"

NumOf(tok) == IF tok = "60" THEN 6000 ELSE 0
StrOf(tok) ==
    CASE tok = "\"GPIO17\"" -> "GPIO17"
      [] tok = "\"high\"" -> "high"
      [] tok = "\"low\"" -> "low"
      [] OTHER -> ""

\* request bodies: a JSON object giving some of the target's keys a value,
\* or a body the decoder rejects (not JSON, or empty)
Bodies(target) ==
    {[ok |-> FALSE, obj |-> <<>>]}
    \cup {[ok |-> TRUE, obj |-> o] :
             o \in UNION {[D -> Tokens] : D \in SUBSET Fields(target)}}

\* the zero value of the target's type
Zero(target) ==
    [k \in Fields(target) |->
        CASE FieldType(k) = "string" -> ""
          [] FieldType(k) = "number" -> 0
          [] FieldType(k) = "bool" -> FALSE
          [] OTHER -> <<>>]

\* types with a Default method, types with a Validate method
IsDefaulter(target) == target = "ServoModuleConfig"
IsValidator(target) == target \in {"ServoModuleConfig", "HCSRO4Config"}

\* ServoModuleConfig.Default: 50 Hz, duty ratios 0.05 and 0.10
Default(target, v) ==
    IF target = "ServoModuleConfig"
    THEN [v EXCEPT !["frequenzy_hz"] = 5000,
                   !["duty_ratio_p90"] = 5,
                   !["duty_ratio_n90"] = 10]
    ELSE v

\* a JSON value that does not fit the Go type of the field
Mismatch(key, tok) ==
    /\ TokenType(tok) # "null"
    /\ TokenType(tok) # (CASE FieldType(key) = "string" -> "string"
                           [] FieldType(key) = "bool" -> "bool"
                           [] OTHER -> "number")

\* a decoder that decodes into a fresh value of the target's type
DecodeFresh(target, body, v) ==
    IF ~body.ok THEN [err |-> TRUE, value |-> v]
    ELSE LET known == DOMAIN body.obj \cap Fields(target)
             set == {k \in known : ~Mismatch(k, body.obj[k])}
         IN [err |-> set # known,
             value |->
               [k \in Fields(target) |->
                  IF k \notin set THEN Zero(target)[k]
                  ELSE LET tok == body.obj[k] IN
                       CASE FieldType(k) = "*number" ->
                               IF tok = "null" THEN <<>> ELSE <<NumOf(tok)>>
                         [] tok = "null" -> Zero(target)[k]
                         [] FieldType(k) = "string" -> StrOf(tok)
                         [] FieldType(k) = "bool" -> tok = "true"
                         [] OTHER -> NumOf(tok)]]

\* json.NewDecoder(body).Decode(ptr) into a struct: a key of the object
\* sets its field; a field without key keeps its value, and so does one
\* given null, unless it is a pointer (then nil); a value of the wrong type
\* is skipped and reported once the rest is decoded; a key the struct has
\* no field for is ignored
Decode(target, body, v) ==
    IF ~body.ok THEN [err |-> TRUE, value |-> v]
    ELSE LET known == DOMAIN body.obj \cap Fields(target)
             set == {k \in known : ~Mismatch(k, body.obj[k])}
         IN [err |-> set # known,
             value |->
               [k \in Fields(target) |->
                  IF k \notin set THEN v[k]
                  ELSE LET tok == body.obj[k] IN
                       CASE FieldType(k) = "*number" ->
                               IF tok = "null" THEN <<>> ELSE <<NumOf(tok)>>
                         [] tok = "null" -> v[k]
                         [] FieldType(k) = "string" -> StrOf(tok)
                         [] FieldType(k) = "bool" -> tok = "true"
                         [] OTHER -> NumOf(tok)]]

\* ServoModuleConfig.Validate, HCSRO4Config.Validate: nil (TRUE) or an error
Validate(target, v) ==
    CASE target = "ServoModuleConfig" -> v["pin"] # ""
      [] target = "HCSRO4Config" -> v["trigger_pin"] # "" /\ v["echo_pin"] # ""
      [] OTHER -> TRUE

\* `if v, ok := ptr.(Defaulter); ok { v.Default() }`
BindDefault ==
    /\ bind.pc = "default"
    /\ bind' = IF IsDefaulter(bind.target)
               THEN [bind EXCEPT !.pc = "decode",
                                 !.value = Default(bind.target, @),
                                 !.calls = Append(@, "Default")]
               ELSE [bind EXCEPT !.pc = "decode"]
    /\ UNCHANGED <<Modules, inst, stopped, req, client, provider, relay, sensor>>

\* a BindData that goes on to Validate whatever Decode returned
BindDecodeUnchecked ==
    /\ bind.pc = "decode"
    /\ LET r == Decode(bind.target, bind.body, bind.value)
       IN bind' = [bind EXCEPT !.pc = "validate",
                               !.value = r.value,
                               !.calls = Append(@, "Decode")]
    /\ UNCHANGED <<Modules, inst, stopped, req, client, provider, relay, sensor>>

\* `if err := json.NewDecoder(b.requestBody).Decode(ptr); err != nil {
\*      return InputError{error: err} }`
BindDecode ==
    /\ bind.pc = "decode"
    /\ LET r == Decode(bind.target, bind.body, bind.value)
       IN bind' = [bind EXCEPT !.pc = IF r.err THEN "done" ELSE "validate",
                               !.value = r.value,
                               !.calls = Append(@, "Decode"),
                               !.err = IF r.err THEN "DecodeError" ELSE @,
                               !.input = r.err]
    /\ UNCHANGED <<Modules, inst, stopped, req, client, provider, relay, sensor>>

\* `if v, ok := ptr.(Validator); ok { if err := v.Validate(); err != nil {
\*      return InputError{error: err} } }; return nil`
BindValidate ==
    /\ bind.pc = "validate"
    /\ bind' = IF IsValidator(bind.target)
               THEN LET ok == Validate(bind.target, bind.value)
                    IN [bind EXCEPT !.pc = "done",
                                    !.calls = Append(@, "Validate"),
                                    !.err = IF ok THEN @ ELSE "ValidationError",
                                    !.input = ~ok]
               ELSE [bind EXCEPT !.pc = "done"]
    /\ UNCHANGED <<Modules, inst, stopped, req, client, provider, relay, sensor>>

NextBind == BindDefault \/ BindDecode \/ BindValidate

\* BindData is called with a target at its zero value and a request body
InitBind ==
    /\ Start
    /\ client = "binder"
    /\ agent = NewAgent(1)
    /\ rets = <<>>
    /\ relay = NoRelay
    /\ sensor = NoSensor
    /\ \E target \in Targets :
         \E body \in Bodies(target) :
            bind = [pc |-> "default", target |-> target, body |-> body,
                    value |-> Zero(target), calls |-> <<>>,
                    err |-> "nil", input |-> FALSE]

\* one BindData call, phase by phase
SpecBind == InitBind /\ [][NextBind]_vars

(* -------------------------- the relay driver -------------------------- *)
\* The relay driver in two iterations: "JSONHack" (src/main.go: the config
\* is the decoded JSON value, read with Get) and "Binder" (the latest: the
\* config is bound into a RelaySetRequest).
Iterations == {"JSONHack", "Binder"}

RelayActions == {"set", "bogus"}

\* the keys a 'set' config may carry and the JSON values it gives them
SetKeys == {"state", "high"}
SetTokens == {"null", "true", "false", "\"high\"", "\"low\""}

\* the config of a 'set' request: a JSON object over SetKeys, or no object
\* (absent, or a JSON value that is not an object)
SetConfigs ==
    {[ok |-> FALSE, obj |-> <<>>]}
    \cup {[ok |-> TRUE, obj |-> o] :
             o \in UNION {[D -> SetTokens] : D \in SUBSET SetKeys}}

\* `ref = ref.(map[string]interface{})[seg]`: the assertion panics when ref
\* is no map; a key the map lacks yields nil, and so does a JSON null
GetUnsafe(config, key) ==
    IF ~config.ok THEN "panic"
    ELSE IF key \in DOMAIN config.obj THEN config.obj[key] ELSE "null"

\* Get: GetUnsafe with the panic recovered into (nil, false)
Get(config, key) ==
    LET r == GetUnsafe(config, key) IN
    IF r = "panic" THEN [s |-> "null", ok |-> FALSE] ELSE [s |-> r, ok |-> TRUE]

\* RelaySetRequest.Level: gpio.Level(r.High)
Level(request) == IF request["high"] THEN "high" ELSE "low"

\* a request reaches RelayModule.Act
RelayCall(action, config) ==
    /\ relay.pc = "idle"
    /\ relay' = [relay EXCEPT !.pc = "act", !.action = action,
                              !.config = config, !.err = "nil",
                              !.touched = FALSE]
    /\ UNCHANGED <<Modules, inst, stopped, req, client, provider, bind, sensor>>

\* src/main.go RelayModule.Act up to the call of gpio.Set:
\* `switch action { case "set": if state, ok := Get(config, "state"); ok {
\*      gpio.Set(m.pin, state.(string) == "high") ...`; the assertion
\* state.(string) panics on a value that is no string, before Set is called
RelayGet ==
    /\ relay.pc = "act" /\ relay.iter = "JSONHack"
    /\ LET g == Get(relay.config, "state") IN
       relay' =
         IF relay.action # "set"
         THEN [relay EXCEPT !.pc = "done", !.err = "no such action"]
         ELSE IF ~g.ok
         THEN [relay EXCEPT !.pc = "done",
                            !.err = "state is a required field"]
         ELSE IF TokenType(g.s) # "string"
         THEN [relay EXCEPT !.pc = "done", !.err = "panic"]
         ELSE [relay EXCEPT !.pc = "set", !.high = (StrOf(g.s) = "high")]
    /\ UNCHANGED <<Modules, inst, stopped, req, client, provider, bind, sensor>>

\* gpio.Set: `pin.Output(); if high { pin.High() } else { pin.Low() }`,
\* then `return nil, nil`
RelaySet ==
    /\ relay.pc = "set" /\ relay.iter = "JSONHack"
    /\ relay' = [relay EXCEPT !.pc = "done", !.touched = TRUE,
                              !.level = IF relay.high THEN "high" ELSE "low"]
    /\ UNCHANGED <<Modules, inst, stopped, req, client, provider, bind, sensor>>

\* the latest RelayModule.Act up to its switch:
\* `var request = &RelaySetRequest{}; if err := body.BindData(request);
\*  err != nil { return nil, err }; switch action { ... default: no such
\*  action`
RelayBind ==
    /\ relay.pc = "act" /\ relay.iter = "Binder"
    /\ LET r == Decode("RelaySetRequest", relay.config, Zero("RelaySetRequest")) IN
       relay' =
         IF r.err
         THEN [relay EXCEPT !.pc = "done", !.err = "DecodeError"]
         ELSE IF relay.action # "set"
         THEN [relay EXCEPT !.pc = "done", !.err = "no such action"]
         ELSE [relay EXCEPT !.pc = "set", !.high = (Level(r.value) = "high")]
    /\ UNCHANGED <<Modules, inst, stopped, req, client, provider, bind, sensor>>

\* `return nil, m.pin.Out(request.Level())`: the pin takes the level, or
\* the write fails
RelayOut ==
    /\ relay.pc = "set" /\ relay.iter = "Binder"
    /\ \E ok \in BOOLEAN :
         relay' = IF ok
                  THEN [relay EXCEPT !.pc = "done", !.touched = TRUE,
                                     !.level = IF relay.high THEN "high" ELSE "low"]
                  ELSE [relay EXCEPT !.pc = "done", !.touched = TRUE,
                                     !.err = "HardwareError"]
    /\ UNCHANGED <<Modules, inst, stopped, req, client, provider, bind, sensor>>

\* Act has returned; the instance waits for the next request
RelayReturn ==
    /\ relay.pc = "done"
    /\ relay' = [relay EXCEPT !.pc = "idle"]
    /\ UNCHANGED <<Modules, inst, stopped, req, client, provider, bind, sensor>>

NextRelay ==
    \/ \E action \in RelayActions : \E config \in SetConfigs :
          RelayCall(action, config)
    \/ RelayGet
    \/ RelaySet
    \/ RelayBind
    \/ RelayOut
    \/ RelayReturn

\* a live relay module of either iteration: the latest Initialize leaves the
\* pin driven low, the first one leaves the pin as it found it
InitRelay ==
    /\ Start
    /\ client = "relay"
    /\ agent = NewAgent(1)
    /\ rets = <<>>
    /\ bind = NoBind
    /\ sensor = NoSensor
    /\ \E iter \in Iterations :
         \E level \in {"low", "high"} :
            /\ iter = "Binder" => level = "low"
            /\ relay = [pc |-> "idle", iter |-> iter, action |-> "set",
                        config |-> [ok |-> FALSE, obj |-> <<>>],
                        high |-> FALSE, level |-> level,
                        touched |-> FALSE, err |-> "nil"]

\* requests to one live relay module, one after the other
SpecRelay == InitRelay /\ [][NextRelay]_vars

(* --------------------- the HTG3535CH driver's values ------------------ *)
\* HTGModule.Act 'rh' and 'calibrate' with the values they compute, one
\* request after the other.  Humidities are kept in hundredths of a percent.
HTGActions == {"rh", "calibrate"}

\* what m.rh.Read() may return as the raw humidity
Readings == {3000, 5500}

\* config.RHAdjustment as given to Initialize
InitialAdjustments == {0, 500}

\* `var trueValue = 100.0`
DefaultTrueValue == 10000

\* `adjustment = trueValue - val` with the operands swapped in sign
AdjustmentSum(trueValue, val) == trueValue + val

\* `adjustment = trueValue - val`
Adjustment(trueValue, val) == trueValue - val

\* no calibration against a reading is in force
NoCal == [set |-> FALSE, raw |-> 0, true |-> 0]

\* a request reaches HTGModule.Act
HTGCall(action, body) ==
    /\ sensor.pc = "idle"
    /\ sensor' = [sensor EXCEPT !.pc = IF action = "calibrate" THEN "bind" ELSE "read",
                                !.action = action, !.body = body,
                                !.request = Zero("HTGCalibrateRequest"),
                                !.before = sensor.rhAdjustment,
                                !.read = FALSE, !.raw = 0, !.trueValue = 0,
                                !.adjustment = 0,
                                !.err = "nil", !.result = 0]
    /\ UNCHANGED <<Modules, inst, stopped, req, client, provider, bind, relay>>

\* case "calibrate": `var request = &HTGCalibrateRequest{}; if err :=
\* body.BindData(request); err != nil { return nil, err }`, then the choice
\* between the explicit adjustment and the reading
HTGBind ==
    /\ sensor.pc = "bind"
    /\ LET r == Decode("HTGCalibrateRequest", sensor.body,
                       Zero("HTGCalibrateRequest")) IN
       sensor' =
         IF r.err
         THEN [sensor EXCEPT !.pc = "done", !.err = "DecodeError"]
         ELSE IF r.value["rh_adjustment"] # <<>>
         THEN [sensor EXCEPT !.pc = "store", !.request = r.value,
                             !.adjustment = r.value["rh_adjustment"][1]]
         ELSE [sensor EXCEPT !.pc = "read", !.request = r.value]
    /\ UNCHANGED <<Modules, inst, stopped, req, client, provider, bind, relay>>

\* `val, err := m.rh.Read()`: in 'rh' followed by
\* `return val + m.rhAdjustment, err`, in 'calibrate' by
\* `if err != nil { return nil, err }; adjustment = trueValue - val`
HTGRead ==
    /\ sensor.pc = "read"
    /\ \E ok \in BOOLEAN : \E val \in Readings :
         LET trueValue == IF sensor.request["true_value"] # <<>>
                          THEN sensor.request["true_value"][1]
                          ELSE DefaultTrueValue
         IN sensor' =
              IF ~ok
              THEN [sensor EXCEPT !.pc = "done", !.read = TRUE,
                                  !.err = "HardwareError",
                                  !.result = IF sensor.action = "rh"
                                             THEN sensor.rhAdjustment ELSE 0]
              ELSE IF sensor.action = "rh"
              THEN [sensor EXCEPT !.pc = "done", !.read = TRUE, !.raw = val,
                                  !.result = val + sensor.rhAdjustment]
              ELSE [sensor EXCEPT !.pc = "store", !.read = TRUE, !.raw = val,
                                  !.trueValue = trueValue,
                                  !.adjustment = Adjustment(trueValue, val)]
    /\ UNCHANGED <<Modules, inst, stopped, req, client, provider, bind, relay>>

\* `m.rhAdjustment = adjustment; return HTGCalibrateResponse{...}, nil`;
\* cal remembers the reading and the true value the adjustment came from
HTGStore ==
    /\ sensor.pc = "store"
    /\ sensor' = [sensor EXCEPT !.pc = "done",
                                !.rhAdjustment = sensor.adjustment,
                                !.result = sensor.adjustment,
                                !.cal = IF sensor.read
                                        THEN [set |-> TRUE, raw |-> sensor.raw,
                                              true |-> sensor.trueValue]
                                        ELSE NoCal]
    /\ UNCHANGED <<Modules, inst, stopped, req, client, provider, bind, relay>>

\* Act has returned; the module waits for the next request
HTGReturn ==
    /\ sensor.pc = "done"
    /\ sensor' = [sensor EXCEPT !.pc = "idle"]
    /\ UNCHANGED <<Modules, inst, stopped, req, client, provider, bind, relay>>

NextHTG ==
    \/ \E action \in HTGActions : \E body \in Bodies("HTGCalibrateRequest") :
          HTGCall(action, body)
    \/ HTGBind
    \/ HTGRead
    \/ HTGStore
    \/ HTGReturn

\* a live HTG module: Initialize has stored config.RHAdjustment
InitHTG ==
    /\ Start
    /\ client = "htg"
    /\ agent = NewAgent(1)
    /\ rets = <<>>
    /\ bind = NoBind
    /\ relay = NoRelay
    /\ \E a \in InitialAdjustments :
         sensor = [pc |-> "idle", action |-> "rh",
                   body |-> [ok |-> FALSE, obj |-> <<>>],
                   request |-> Zero("HTGCalibrateRequest"),
                   rhAdjustment |-> a, before |-> a, read |-> FALSE, raw |-> 0,
                   trueValue |-> 0,
                   adjustment |-> 0, err |-> "nil", result |-> 0, cal |-> NoCal]

\* requests to one live HTG module, one after the other
SpecHTG == InitHTG /\ [][NextHTG]_vars

(* ------------------------ am2301: Parse and Valid --------------------- *)
\* bytes a frame is made of: small and large ones, with and without the
\* top bit
Bytes == {0, 2, 88, 128, 130, 255}

\* frames of five bytes: the fifth is the checksum of the first four as a
\* byte, or one more
Frames ==
    {<<q[1], q[2], q[3], q[4], (q[1] + q[2] + q[3] + q[4] + d) % 256>> :
        q \in Bytes \X Bytes \X Bytes \X Bytes \X {0}, d \in {0, 1}}

\* the zero State; RH and Temp are kept in tenths
ZeroState == [RH |-> 0, Temp |-> 0]

\* a Parse that takes byte 2 as it is, sign bit included
ParseUnsigned(vals) ==
    IF (vals[1] + vals[2] + vals[3] + vals[4]) % 256 # vals[5]
    THEN [err |-> "invalid checksum", state |-> ZeroState]
    ELSE [err |-> "nil",
          state |-> [RH |-> vals[1] * 256 + vals[2],
                     Temp |-> vals[3] * 256 + vals[4]]]

\* Parse: the sum of bytes 0..3 is a byte sum (it wraps at 256);
\* `if (vals[2] >> 7) != 0 { vals[2] ^= (1 << 7); tempSign = -1 }`;
\* RH = (vals[0]<<8 | vals[1]) / 10, Temp = tempSign * (vals[2]<<8 | vals[3]) / 10
Parse(vals) ==
    IF (vals[1] + vals[2] + vals[3] + vals[4]) % 256 # vals[5]
    THEN [err |-> "invalid checksum", state |-> ZeroState]
    ELSE LET neg == vals[3] \div 128 # 0
             hi == IF neg THEN vals[3] - 128 ELSE vals[3]
             tempSign == IF neg THEN -1 ELSE 1
         IN [err |-> "nil",
             state |-> [RH |-> vals[1] * 256 + vals[2],
                        Temp |-> tempSign * (hi * 256 + vals[4])]]

\* State.Valid: `(s.RH <= 100.0) && (s.RH >= 0.0) && (s.Temp <= 80.0) &&
\* (s.Temp <= 40.0)`
Valid(s) == (s.RH <= 1000) /\ (s.RH >= 0) /\ (s.Temp <= 800) /\ (s.Temp <= 400)

\* Parse is applied to the frame
ParseFrame ==
    /\ sensor.pc = "frame"
    /\ LET r == Parse(sensor.vals) IN
       sensor' = [sensor EXCEPT !.pc = "parsed", !.err = r.err, !.state = r.state]
    /\ UNCHANGED <<Modules, inst, stopped, req, client, provider, bind, relay>>

\* Valid is applied to the State that Parse returned
CheckValid ==
    /\ sensor.pc = "parsed" /\ sensor.err = "nil"
    /\ sensor' = [sensor EXCEPT !.pc = "checked", !.valid = Valid(sensor.state)]
    /\ UNCHANGED <<Modules, inst, stopped, req, client, provider, bind, relay>>

NextParse == ParseFrame \/ CheckValid

InitParse ==
    /\ Start
    /\ client = "parse"
    /\ agent = NewAgent(1)
    /\ rets = <<>>
    /\ bind = NoBind
    /\ relay = NoRelay
    /\ \E vals \in Frames :
         sensor = [pc |-> "frame", vals |-> vals, err |-> "nil",
                   state |-> ZeroState, valid |-> FALSE]

\* Parse, then Valid, on a frame
SpecParse == InitParse /\ [][NextParse]_vars

(* --------------------------- gpio.WaitChange -------------------------- *)
\* rpio.Low and rpio.High
Levels == {0, 1}

\* timeouts callers give, in ticks of the clock
Timeouts == {1, 2}

\* the clock runs while WaitChange polls; it is kept as the time since
\* `start := time.Now()` and no further than one tick past the timeout,
\* beyond which every reading of it compares the same
Tick ==
    /\ sensor.pc \notin {"returned"}
    /\ sensor.clock <= sensor.timeout
    /\ sensor' = [sensor EXCEPT !.clock = @ + 1]
    /\ UNCHANGED <<Modules, inst, stopped, req, client, provider, bind, relay>>

\* the pin changes its level: the sensor's doing, at any moment
PinChange ==
    /\ sensor.pc \notin {"returned"}
    /\ sensor' = [sensor EXCEPT !.level = 1 - @]
    /\ UNCHANGED <<Modules, inst, stopped, req, client, provider, bind, relay>>

\* `elapsed = time.Now().Sub(start); if elapsed > timeout { return }`
WaitElapsed ==
    /\ sensor.pc = "top"
    /\ sensor' = [sensor EXCEPT !.elapsed = sensor.clock,
                                !.pc = IF sensor.clock > sensor.timeout
                                       THEN "returned" ELSE "a"]
    /\ UNCHANGED <<Modules, inst, stopped, req, client, provider, bind, relay>>

\* `a := pin.Read()`, `b := pin.Read()`, `c := pin.Read()`
WaitRead ==
    /\ sensor.pc \in {"a", "b", "c"}
    /\ sensor' = [sensor EXCEPT ![sensor.pc] = sensor.level,
                                !.pc = CASE sensor.pc = "a" -> "b"
                                         [] sensor.pc = "b" -> "c"
                                         [] OTHER -> "compare"]
    /\ UNCHANGED <<Modules, inst, stopped, req, client, provider, bind, relay>>

\* a comparison that looks at the last sample only
WaitCompareLast ==
    /\ sensor.pc = "compare"
    /\ sensor' = IF sensor.c = sensor.mode
                 THEN [sensor EXCEPT !.pc = "returned", !.ok = TRUE]
                 ELSE [sensor EXCEPT !.pc = "top", !.retried = TRUE]
    /\ UNCHANGED <<Modules, inst, stopped, req, client, provider, bind, relay>>

\* `if (a == b) && (b == c) && (c == mode) { ok = true; return }`, else
\* the loop goes round
WaitCompare ==
    /\ sensor.pc = "compare"
    /\ sensor' = IF sensor.a = sensor.b /\ sensor.b = sensor.c
                    /\ sensor.c = sensor.mode
                 THEN [sensor EXCEPT !.pc = "returned", !.ok = TRUE]
                 ELSE [sensor EXCEPT !.pc = "top", !.retried = TRUE]
    /\ UNCHANGED <<Modules, inst, stopped, req, client, provider, bind, relay>>

NextWait == Tick \/ PinChange \/ WaitElapsed \/ WaitRead \/ WaitCompare

\* WaitChange(pin, mode, timeout) is entered: `start := time.Now()`, the
\* named results elapsed and ok at their zero values
InitWait ==
    /\ Start
    /\ client = "wait"
    /\ agent = NewAgent(1)
    /\ rets = <<>>
    /\ bind = NoBind
    /\ relay = NoRelay
    /\ \E mode \in Levels, timeout \in Timeouts, level \in Levels :
         sensor = [pc |-> "top", mode |-> mode, timeout |-> timeout,
                   level |-> level, clock |-> 0, elapsed |-> 0,
                   a |-> 0, b |-> 0, c |-> 0, ok |-> FALSE, retried |-> FALSE]

\* one call of WaitChange on a pin that does what it likes
SpecWait == InitWait /\ [][NextWait]_vars

(* ---------------------------- am2301: Check --------------------------- *)
\* Impl.Check called by concurrent goroutines on one sensor.  The
\* WaitChange calls of Request and Read are followed by their outcome: a
\* stable reading found in time, or the timeout once the clock has passed
\* it.

\* the WaitChange calls of Request (am.mode is 1) and of Read (two for each
\* of the 8 bits of the 5 bytes)
RequestWaits == 5
ReadWaits == 80

\* a wait's timeout, taken as the unit of the clock
WaitTicks == 1

\* frames the sensor may send: a measurement in range, one with a wrong
\* checksum, one with a temperature of 60.0 and the all-zero frame
AMFrames == {<<2, 88, 0, 88, 178>>, <<2, 88, 0, 88, 179>>,
             <<2, 88, 2, 88, 180>>, <<0, 0, 0, 0, 0>>}

\* what Check returned last to a caller, and why
NoRet == [state |-> ZeroState, err |-> "nil", cause |-> "none"]

\* the calls that have the pin in hand: between Lock and the return
InCheck == {w \in Workers : sensor.pc[w] \in {"request", "wait", "parse"}}

\* a caller enters Check
AMCall(w) ==
    /\ sensor.pc[w] = "idle"
    /\ sensor' = [sensor EXCEPT !.pc[w] = "lock", !.ret[w] = NoRet]
    /\ UNCHANGED <<Modules, inst, stopped, req, client, provider, bind, relay>>

\* a Lock that does not wait for the mutex
AMLockFree(w) ==
    /\ sensor.pc[w] = "lock"
    /\ sensor' = [sensor EXCEPT !.pc[w] = "request", !.holder = w]
    /\ UNCHANGED <<Modules, inst, stopped, req, client, provider, bind, relay>>

\* `am.Mutex.Lock()`
AMLock(w) ==
    /\ sensor.pc[w] = "lock"
    /\ sensor.holder = 0
    /\ sensor' = [sensor EXCEPT !.pc[w] = "request", !.holder = w]
    /\ UNCHANGED <<Modules, inst, stopped, req, client, provider, bind, relay>>

\* Request up to its first wait: Output, High, sleep, Low, sleep, High,
\* Input
AMSignal(w) ==
    /\ sensor.pc[w] = "request"
    /\ sensor' = [sensor EXCEPT !.pc[w] = "wait", !.wait = 1, !.clock = 0]
    /\ UNCHANGED <<Modules, inst, stopped, req, client, provider, bind, relay>>

\* time passes while a WaitChange polls
AMTick ==
    /\ \E w \in Workers : sensor.pc[w] = "wait"
    /\ sensor.clock <= WaitTicks
    /\ sensor' = [sensor EXCEPT !.clock = @ + 1]
    /\ UNCHANGED <<Modules, inst, stopped, req, client, provider, bind, relay>>

\* a WaitChange finds its stable reading in time: the next wait begins, or
\* after the last one Read sets the pin high and returns the frame, which
\* is whatever the sensor sent
AMWaitOk(w) ==
    /\ sensor.pc[w] = "wait"
    /\ sensor.clock <= WaitTicks
    /\ IF sensor.wait < RequestWaits + ReadWaits
       THEN sensor' = [sensor EXCEPT !.wait = @ + 1, !.clock = 0]
       ELSE \E vals \in AMFrames :
              sensor' = [sensor EXCEPT !.pc[w] = "parse", !.vals = vals]
    /\ UNCHANGED <<Modules, inst, stopped, req, client, provider, bind, relay>>

\* a WaitChange times out: Request returns "unexpected request sequence",
\* Read "unexpected read signal", and Check returns `State{}, err`
AMWaitTimeout(w) ==
    /\ sensor.pc[w] = "wait"
    /\ sensor.clock > WaitTicks
    /\ sensor' = [sensor EXCEPT
                    !.pc[w] = "unlock",
                    !.ret[w] = IF sensor.wait <= RequestWaits
                               THEN [state |-> ZeroState,
                                     err |-> "unexpected request sequence",
                                     cause |-> "request"]
                               ELSE [state |-> ZeroState,
                                     err |-> "unexpected read signal",
                                     cause |-> "read"]]
    /\ UNCHANGED <<Modules, inst, stopped, req, client, provider, bind, relay>>

\* `state, err := Parse(vals); if err != nil { return State{}, err };
\*  if !state.Valid() { return State{}, err }; return state, nil`: err is
\* nil where Valid is tested
AMParse(w) ==
    /\ sensor.pc[w] = "parse"
    /\ LET r == Parse(sensor.vals) IN
       sensor' = [sensor EXCEPT
                    !.pc[w] = "unlock",
                    !.ret[w] = IF r.err # "nil"
                               THEN [state |-> ZeroState, err |-> r.err,
                                     cause |-> "checksum"]
                               ELSE IF ~Valid(r.state)
                               THEN [state |-> ZeroState, err |-> r.err,
                                     cause |-> "invalid"]
                               ELSE [state |-> r.state, err |-> "nil",
                                     cause |-> "ok"]]
    /\ UNCHANGED <<Modules, inst, stopped, req, client, provider, bind, relay>>

\* an Unlock that runs on the successful return only
AMUnlockOnSuccess(w) ==
    /\ sensor.pc[w] = "unlock"
    /\ sensor' = [sensor EXCEPT !.pc[w] = "idle",
                                !.holder = IF sensor.ret[w].cause = "ok"
                                           THEN 0 ELSE @,
                                !.wait = 0, !.clock = 0,
                                !.vals = <<0, 0, 0, 0, 0>>]
    /\ UNCHANGED <<Modules, inst, stopped, req, client, provider, bind, relay>>

\* `defer am.Mutex.Unlock()`: runs on every return of Check, whose locals
\* are gone then
AMUnlock(w) ==
    /\ sensor.pc[w] = "unlock"
    /\ sensor' = [sensor EXCEPT !.pc[w] = "idle", !.holder = 0,
                                !.wait = 0, !.clock = 0,
                                !.vals = <<0, 0, 0, 0, 0>>]
    /\ UNCHANGED <<Modules, inst, stopped, req, client, provider, bind, relay>>

NextAM ==
    \/ AMTick
    \/ \E w \in Workers :
          \/ AMCall(w)
          \/ AMLock(w)
          \/ AMSignal(w)
          \/ AMWaitOk(w)
          \/ AMWaitTimeout(w)
          \/ AMParse(w)
          \/ AMUnlock(w)

\* New(pin): no call in progress, the mutex free
InitAM ==
    /\ Start
    /\ client = "am2301"
    /\ agent = NewAgent(1)
    /\ rets = <<>>
    /\ bind = NoBind
    /\ relay = NoRelay
    /\ sensor = [pc |-> [w \in Workers |-> "idle"], holder |-> 0,
                 wait |-> 0, clock |-> 0, vals |-> <<0, 0, 0, 0, 0>>,
                 ret |-> [w \in Workers |-> NoRet]]

\* concurrent callers of Check on one sensor
SpecAM == InitAM /\ [][NextAM]_vars

\* The same under the scheduling the code runs on: the clock advances, a
\* goroutine that can take its next step takes it, a WaitChange past its
\* timeout returns, and sync.Mutex hands the lock to a goroutine that keeps
\* waiting for it (starvation mode).  Nothing makes the pin settle and
\* nothing makes a caller call.
SpecAMFair ==
    /\ SpecAM
    /\ WF_vars(AMTick)
    /\ \A w \in Workers :
          /\ SF_vars(AMLock(w))
          /\ WF_vars(AMSignal(w))
          /\ WF_vars(AMWaitTimeout(w))
          /\ WF_vars(AMParse(w))
          /\ WF_vars(AMUnlock(w))

(* ------------------------------ claims -------------------------------- *)
InitDone(w) == req[w].pc = "done" /\ req[w].kind = "init"
ActDone(w) == req[w].pc = "done" /\ req[w].kind = "act"

\* the errors a driver's Initialize returns
InitErrors == {"DecodeError", "ValidationError", "HardwareError"}

AllRegistered(specs) == \A n \in DOMAIN specs : specs[n].source \in ModuleIndex

\* every entry of the table is an instance whose Initialize returned nil
AllReady(table) == \A n \in DOMAIN table : inst[table[n]].state = "Ready"

\* worker w takes the step that looks a module up for an act request
ActStarts(w) ==
    /\ req[w].pc = "idle"
    /\ req'[w].pc # "idle"
    /\ req'[w].kind = "act"

\* C1: when every source of the spec set is registered and every Initialize
\* succeeds, InitializeModules returns nil and the live table then holds
\* exactly the names of the spec set, each bound to an instance constructed
\* by this call: names that were live before (left by successful calls) and
\* are not in the set are gone.
C1_ReinitReplacesTable ==
    \A w \in Workers :
        (/\ InitDone(w)
         /\ AllRegistered(req[w].specs)
         /\ req[w].err \notin InitErrors
         /\ AllReady(req[w].before))
        => /\ req[w].err = "nil"
           /\ DOMAIN Modules = DOMAIN req[w].specs
           /\ \A n \in DOMAIN Modules : Modules[n] \in req[w].built

\* C2: when the spec set holds an unregistered source (and no Initialize of
\* the batch fails first), InitializeModules fails with UnknownSource and
\* the live table is the one from before the call.
C2_UnknownSourceLeavesTable ==
    \A w \in Workers :
        (InitDone(w) /\ ~AllRegistered(req[w].specs) /\ req[w].err \notin InitErrors)
        => /\ req[w].err = "UnknownSource"
           /\ Modules = req[w].before

\* C3: when a driver's Initialize returns an error, InitializeModules leaves
\* the live table as it was before the call: no name is bound to an
\* instance of the failed batch.
C3_InitializeErrorLeavesTable ==
    \A w \in Workers :
        (InitDone(w) /\ req[w].err \in InitErrors) => Modules = req[w].before

\* C4: when InitializeModules returns an error, Stop() has been called on
\* every instance the call constructed and initialized.
C4_FailedBatchStopsBuilt ==
    \A w \in Workers :
        (InitDone(w) /\ req[w].err # "nil")
        => \A i \in req[w].built : inst[i].state = "Ready" => i \in stopped

\* C5: when InitializeModules returns nil, Stop() has been called on every
\* previously live (Ready) instance whose name is not in the spec set and
\* on every such instance that is no longer in the live table.
C5_ReplacedAreStopped ==
    \A w \in Workers :
        (InitDone(w) /\ req[w].err = "nil" /\ AllReady(req[w].before))
        => \A n \in DOMAIN req[w].before :
              (n \notin DOMAIN req[w].specs \/ req[w].before[n] \notin Range(Modules))
              => req[w].before[n] \in stopped

\* C6: Act on a module name that is not in the live table returns
\* UnknownModule, for every action and payload, without entering any
\* driver's Act and without any hardware operation.
C6_ActUnknownModule ==
    \A w \in Workers :
        (ActDone(w) /\ req[w].module \notin DOMAIN Modules)
        => /\ req[w].err = "UnknownModule"
           /\ req[w].calls = {}
           /\ req[w].nops = 0

\* an act on an absent name has failed while another module is live
C6_Witness ==
    \E w \in Workers :
        /\ ActDone(w)
        /\ req[w].module \notin DOMAIN Modules
        /\ Modules # <<>>
        /\ req[w].err = "UnknownModule"

\* C7: on a live, Ready module of any kind but echo, Act with an action the
\* driver does not recognize returns UnknownAction, whatever the payload,
\* and performs no hardware operation.
C7_UnknownActionAnyPayload ==
    \A w \in Workers :
        (/\ ActDone(w)
         /\ req[w].target # 0
         /\ inst[req[w].target].state = "Ready"
         /\ inst[req[w].target].kind # "echo"
         /\ req[w].action \notin Recognized(inst[req[w].target].kind))
        => req[w].err = "UnknownAction" /\ req[w].nops = 0

\* C8: the manager hands an Act to an instance only when the instance is
\* Ready: its Initialize has returned nil and Stop has not been called.
C8_ActOnlyWhenReady ==
    [][\A w \in Workers :
         (ActStarts(w) /\ req'[w].target # 0)
         => /\ inst[req'[w].target].state = "Ready"
            /\ req'[w].target \notin stopped]_vars

\* C9: an Act looks the table up either before an InitializeModules call
\* has written anything or after it has applied its whole batch, never in
\* between.
C9_LookupSeesWholeBatch ==
    [][\A w \in Workers :
         ActStarts(w)
         => \A v \in Workers \ {w} :
               req[v].pc \in InitPcs
               => \/ Modules = req[v].before
                  \/ req[v].pc = "init_loop" /\ req[v].remaining = {}]_vars

\* worker w is between two hardware operations of a driver's Act
InHw(w) == req[w].pc = "hw" /\ req[w].nops >= 1

\* C10: no two Act calls are between their hardware operations on the same
\* instance at once.
C10_ActsSerializedPerInstance ==
    \A w1, w2 \in Workers :
        (w1 # w2 /\ InHw(w1) /\ InHw(w2)) => req[w1].target # req[w2].target

\* worker v is inside a driver's Act, at a hardware operation
InDriver(v) == req[v].pc = "hw"

\* C12: while an Act is inside a driver, at a hardware operation of its
\* instance, an Act against any module bound to another instance is not
\* held up: an idle goroutine can look the module up and enter its
\* driver, one inside the other driver can take its next step, and one
\* that has its result can return it.
C12_ActsDoNotBlock ==
    \A v, w \in Workers :
        (v # w /\ InDriver(v))
        => /\ req[w].pc = "idle"
              => \A m \in DOMAIN Modules, a \in ActionsUsed, p \in PayloadsUsed :
                    Modules[m] # req[v].target => ENABLED Act(w, m, a, p)
           /\ (InDriver(w) /\ req[w].target # req[v].target) => ENABLED HwStep(w)
           /\ ActDone(w) => ENABLED Return(w)

\* an Act on one module has run to its end, through a hardware operation,
\* while an Act on another module is still at its hardware operation
C12_Witness ==
    \E v, w \in Workers :
        /\ v # w
        /\ InDriver(v) /\ req[v].nops = 0
        /\ ActDone(w) /\ req[w].err = "nil" /\ req[w].nops >= 1
        /\ req[w].target # req[v].target
        /\ inst[req[v].target].state = "Ready"
        /\ inst[req[w].target].state = "Ready"

\* worker w is at an access of its instance's rhAdjustment field
AtField(w) ==
    /\ req[w].pc = "hw"
    /\ HwOps(inst[req[w].target].kind, req[w].action, req[w].config)[req[w].nops + 1]
          \in FieldOps

\* C13: the accesses of a live (Ready) HTG instance's rhAdjustment are made
\* under the instance's lock: no two Act calls on the same instance are at
\* an access of the field at once when one of them is the store of
\* "calibrate".
C13_AdjustmentUnderLock ==
    \A w1, w2 \in Workers :
        (/\ w1 # w2
         /\ AtField(w1) /\ AtField(w2)
         /\ req[w1].target = req[w2].target
         /\ inst[req[w1].target].state = "Ready")
        => req[w1].action # "calibrate" /\ req[w2].action # "calibrate"

\* the calls of one method made so far
CallsOf(method) == {i \in DOMAIN rets : rets[i].call = method}

\* C14: the default-bus accessor called any number of times in sequence
\* returns the same bus handle every time it returns one, and the bus is
\* opened exactly once: GetI2CDevice never opens a bus after one has opened,
\* and every device it returns is on that one bus.
C14_SameBusOpenedOnce ==
    LET devs == {i \in CallsOf("GetI2CDevice") : rets[i].err = "nil"}
        opens == {i \in DOMAIN rets : rets[i].lib = "i2creg.Open ok"}
    IN /\ Cardinality(opens) <= 1
       /\ \A i \in devs : rets[i].ret # 0 /\ rets[i].ret = agent.i2c
       /\ \A i, j \in devs : rets[i].ret = rets[j].ret
       /\ devs # {} => Cardinality(opens) = 1
       /\ \A i, j \in CallsOf("GetDefaultI2CBus") : rets[i].ret = rets[j].ret

\* after a failed open, two devices at different addresses have been
\* returned
C14_Witness ==
    \E i, j, k \in CallsOf("GetI2CDevice") :
        /\ i < j /\ j < k
        /\ rets[i].err = "OpenError"
        /\ rets[j].err = "nil" /\ rets[k].err = "nil"
        /\ rets[j].arg # rets[k].arg

\* C15: across any sequence of GetGPIOPin calls, gpio.Setup is performed at
\* most once: after a call on which it succeeded, no later call performs it.
C15_SetupAtMostOnce ==
    \A i, j \in CallsOf("GetGPIOPin") :
        (i < j /\ rets[i].lib = "gpio.Setup ok") => rets[j].lib = "none"

\* C16: GetGPIOByName fails with a NotFound error for a name that is no pin
\* of the platform; it never returns a nil handle together with a nil error.
C16_UnknownPinNotFound ==
    \A i \in CallsOf("GetGPIOByName") :
        /\ (rets[i].arg # "18" /\ rets[i].arg \notin DOMAIN PinRegistry)
              => rets[i].err = "NotFound"
        /\ ~(rets[i].ret = 0 /\ rets[i].err = "nil")

\* the value a JSON token gives a field of the key's type
Given(key, tok) ==
    CASE FieldType(key) = "string" -> StrOf(tok)
      [] FieldType(key) = "number" -> NumOf(tok)
      [] OTHER -> <<NumOf(tok)>>

\* the defaults of the servo config, in hundredths
ServoDefaults ==
    [frequenzy_hz |-> 5000, duty_ratio_p90 |-> 5, duty_ratio_n90 |-> 10]

\* the body has been decoded into the target without error
Decoded == bind.pc \in {"validate", "done"} /\ bind.err # "DecodeError"

\* C17: once a body is decoded into a target, a field with a default D that
\* the body omits holds D, and a field the body gives a value V holds V,
\* whatever D is.
C17_DefaultsKeptPayloadWins ==
    Decoded
    => \A k \in Fields(bind.target) :
          /\ (/\ bind.target = "ServoModuleConfig"
              /\ k \in DOMAIN ServoDefaults
              /\ k \notin DOMAIN bind.body.obj)
             => bind.value[k] = ServoDefaults[k]
          /\ (k \in DOMAIN bind.body.obj /\ bind.body.obj[k] # "null")
             => bind.value[k] = Given(k, bind.body.obj[k])

\* a servo config bound from a body that sets the frequency and a duty
\* ratio (to 0) and omits the other duty ratio
C17_Witness ==
    /\ bind.pc = "done" /\ bind.err = "nil"
    /\ bind.target = "ServoModuleConfig"
    /\ DOMAIN bind.body.obj = {"pin", "frequenzy_hz", "duty_ratio_n90"}
    /\ bind.value["frequenzy_hz"] = 6000
    /\ bind.value["duty_ratio_n90"] = 0
    /\ bind.value["duty_ratio_p90"] = 5

\* the phases BindData runs on a target when none fails
Phases(target) ==
    (IF IsDefaulter(target) THEN <<"Default">> ELSE <<>>)
    \o <<"Decode">>
    \o (IF IsValidator(target) THEN <<"Validate">> ELSE <<>>)

IsPrefix(s, t) == Len(s) <= Len(t) /\ \A i \in 1..Len(s) : s[i] = t[i]

\* the decoder rejects the body for the target
DecodeFails == Decode(bind.target, bind.body, Zero(bind.target)).err

\* C18: BindData runs Default, Decode, Validate in this order, each at most
\* once; when the decode fails it returns a DecodeError marked as input
\* error and does not call Validate; Validate is called only after a
\* successful decode, on the defaults overlaid with the body, and its
\* failure is returned as a ValidationError marked as input error.
C18_DefaultDecodeValidate ==
    bind.pc # "none"
    => /\ IsPrefix(bind.calls, Phases(bind.target))
       /\ (DecodeFails /\ "Decode" \in Range(bind.calls))
          => /\ bind.pc = "done"
             /\ bind.err = "DecodeError" /\ bind.input
             /\ "Validate" \notin Range(bind.calls)
       /\ "Validate" \in Range(bind.calls)
          => /\ ~DecodeFails
             /\ bind.value = Decode(bind.target, bind.body,
                                    Default(bind.target, Zero(bind.target))).value
             /\ ~Validate(bind.target, bind.value)
                  => bind.err = "ValidationError" /\ bind.input
       /\ (bind.pc = "done" /\ bind.err = "nil")
          => bind.calls = Phases(bind.target) /\ ~bind.input

\* a servo config whose body gives the frequency a string: the decode has
\* failed after Default, and Validate, which would fail too, was not called
C18_Witness ==
    /\ bind.pc = "done"
    /\ bind.target = "ServoModuleConfig"
    /\ bind.body.ok /\ DOMAIN bind.body.obj = {"frequenzy_hz"}
    /\ bind.err = "DecodeError"
    /\ bind.calls = <<"Default", "Decode">>
    /\ ~Validate(bind.target, bind.value)

ClientErrorStatus == 400..499
ServerErrorStatus == 500..599

\* C19: the status of an Act response follows the class of the failure: an
\* input error (DecodeError, ValidationError) gets a client-error status,
\* a hardware failure or a fault of the driver of a live (Ready) module a
\* server-error status.
C19_StatusByErrorClass ==
    \A w \in Workers :
        ActDone(w)
        => /\ req[w].err \in InputErrors
              => ActStatus(req[w].err) \in ClientErrorStatus
           /\ (/\ req[w].err \in {"HardwareError", "panic"}
               /\ inst[req[w].target].state = "Ready")
              => ActStatus(req[w].err) \in ServerErrorStatus

\* C20: an Act that fails with UnknownModule or UnknownAction is answered
\* with a client-error status (not-found), never with a server-error one.
C20_UnknownIsNotFound ==
    \A w \in Workers :
        (ActDone(w) /\ req[w].err \in {"UnknownModule", "UnknownAction"})
        => /\ ActStatus(req[w].err) \in ClientErrorStatus
           /\ ActStatus(req[w].err) \notin ServerErrorStatus

\* C21: an Initialize that fails on an input error (a config that cannot be
\* decoded or fails validation) is answered with a client-error status; a
\* hardware failure with a server-error status.
C21_InitStatusByErrorClass ==
    \A w \in Workers :
        InitDone(w)
        => /\ req[w].err \in InputErrors
              => InitStatus(req[w].err) \in ClientErrorStatus
           /\ req[w].err = "HardwareError"
              => InitStatus(req[w].err) \in ServerErrorStatus

\* the status lines and the bodies among the writes of a handler
Headers(writes) == {i \in DOMAIN writes : writes[i].op = "WriteHeader"}
Encodes(writes) == {i \in DOMAIN writes : writes[i].op = "Encode"}

\* C26: every failure response, of Initialize as of Act, carries a status
\* and a message string.
C26_FailureHasStatusAndMessage ==
    \A w \in Workers :
        /\ (InitDone(w) /\ req[w].err # "nil")
           => /\ Headers(InitWrites(req[w].err)) # {}
              /\ Encodes(InitWrites(req[w].err)) # {}
        /\ (ActDone(w) /\ req[w].err # "nil")
           => /\ Headers(ActWrites(req[w].err)) # {}
              /\ Encodes(ActWrites(req[w].err)) # {}

\* C30: every Act request (on an unknown module or on a live, Ready one)
\* produces exactly one response: a failed Act one status and one message
\* body, a successful Act one result body.
C30_ExactlyOneResponse ==
    \A w \in Workers :
        (ActDone(w) /\ (req[w].target = 0 \/ inst[req[w].target].state = "Ready"))
        => LET writes == ActWrites(req[w].err) IN
           /\ Cardinality(Encodes(writes)) = 1
           /\ Cardinality(Headers(writes)) = IF req[w].err = "nil" THEN 0 ELSE 1

\* C22: on success, the num_modules of the Initialize response equals the
\* number of module specs in the request, whatever the live table was
\* before (here: any table left by successful calls).
C22_NumModulesIsSpecCount ==
    \A w \in Workers :
        (InitDone(w) /\ req[w].err = "nil" /\ AllReady(req[w].before))
        => NumModules = Cardinality(DOMAIN req[w].specs)

\* C23: no failing step is swallowed and none crashes the program.  An Act on
\* a live instance never panics, an Act one of whose hardware operations
\* failed ends with an error, and an Initialize that ends without error has
\* a hardware handle behind every instance it built.
C23_NoErrorSwallowed ==
    \A w \in Workers :
        /\ (ActDone(w) /\ req[w].target # 0 /\ inst[req[w].target].state = "Ready")
           => /\ req[w].err # "panic"
              /\ req[w].failed => req[w].err # "nil"
        /\ (InitDone(w) /\ req[w].err = "nil")
           => \A i \in req[w].built : inst[i].hw

\* C24: the echo driver hands the request back.  Every Act on a live echo
\* module succeeds, whatever the action name and whatever the payload (an
\* absent one included), and its result carries the request's action and
\* the request's config payload.
C24_EchoPassesThrough ==
    \A w \in Workers :
        (/\ ActDone(w) /\ req[w].target # 0
         /\ inst[req[w].target].kind = "echo"
         /\ inst[req[w].target].state = "Ready")
        => /\ req[w].err = "nil"
           /\ EchoResult(req[w].action, req[w].config)
                = [action |-> req[w].action, config |-> req[w].config]

\* the relay module has answered a 'set' request
SetDone == relay.pc = "done" /\ relay.action = "set"

\* C25: on a live relay module, Act 'set' with config {state: "high"}
\* succeeds with no error and leaves the pin driven high, and one with
\* {state: "low"} leaves it driven low (a failing pin write apart).
C25_SetStateDrivesPin ==
    \A tok \in {"\"high\"", "\"low\""} :
        (/\ SetDone
         /\ relay.config = [ok |-> TRUE, obj |-> [k \in {"state"} |-> tok]]
         /\ relay.err # "HardwareError")
        => /\ relay.err = "nil"
           /\ relay.level = StrOf(tok)

\* C28: in the JSONHack iteration, Act 'set' with a config that has no
\* `state` field (the config absent or no object, or an object lacking the
\* key) returns the error that `state` is required and does not touch the
\* pin.
C28_MissingStateIsAnError ==
    (/\ SetDone /\ relay.iter = "JSONHack"
     /\ "state" \notin DOMAIN relay.config.obj)
    => /\ relay.err = "state is a required field"
       /\ ~relay.touched

\* C27: when the default I2C bus could not be opened at startup, no module
\* relying on I2C becomes live: its Initialize returns an error, so no
\* such instance is Ready with an absent bus handle.
C27_NoBusNoI2CModule ==
    agent.defaultI2CBus = 0
    => \A i \in DOMAIN inst :
          inst[i].kind \in {"i2c", "ads", "htg3535ch"} => inst[i].state # "Ready"

\* the live table is what call a followed by call b leaves of the table
\* both found: every name of b's specs is bound to an instance b built,
\* every other name of a's specs to one a built, and the other names are
\* bound as they were
SerialOrder(a, b) ==
    LET sa == DOMAIN req[a].specs
        sb == DOMAIN req[b].specs
        t0 == req[a].before
    IN /\ DOMAIN Modules = DOMAIN t0 \cup sa \cup sb
       /\ \A n \in sb : Modules[n] \in req[b].built
       /\ \A n \in sa \ sb : Modules[n] \in req[a].built
       /\ \A n \in DOMAIN t0 \ (sa \cup sb) : Modules[n] = t0[n]

\* C29: two concurrent InitializeModules calls are serializable.  Once two
\* calls that started on the same table have both returned without error,
\* the live table is the one that running them one after the other, in one
\* of the two orders, produces.
C29_InitializeSerializable ==
    \A a, b \in Workers :
        (/\ a # b
         /\ InitDone(a) /\ req[a].err = "nil"
         /\ InitDone(b) /\ req[b].err = "nil"
         /\ req[a].before = req[b].before)
        => SerialOrder(a, b) \/ SerialOrder(b, a)

\* C31: under concurrent GetI2CDevice calls on one ServiceAgent the bus is
\* opened at most once, and every device returned refers to the same bus.
C31_ConcurrentOpenOnce ==
    /\ BusesOpened + Cardinality(OpenedInFlight) <= 1
    /\ \A i, j \in DOMAIN rets :
          (rets[i].err = "nil" /\ rets[j].err = "nil") => rets[i].ret = rets[j].ret

\* the HTG module has answered a request for the action
HTGDone(action) == sensor.pc = "done" /\ sensor.action = action

\* the request body of the calibrate being answered, as BindData decodes it
CalRequest == Decode("HTGCalibrateRequest", sensor.body, Zero("HTGCalibrateRequest"))

\* C32: HTG 'calibrate' stores an explicit adjustment without reading the
\* sensor; without one it stores trueValue minus the raw reading, trueValue
\* being 100 when absent; when the binding or the reading fails it returns
\* an error and leaves the stored adjustment as it was.  'rh' returns the
\* raw reading plus the stored adjustment, hence trueValue when the raw
\* reading is the one the calibration saw.
C32_CalibrateThenRh ==
    /\ HTGDone("calibrate") =>
          LET r == CalRequest
              given == r.value["rh_adjustment"]
              true == IF r.value["true_value"] # <<>>
                      THEN r.value["true_value"][1] ELSE 10000
          IN /\ r.err => sensor.err # "nil"
             /\ sensor.err # "nil" => sensor.rhAdjustment = sensor.before
             /\ (sensor.err = "nil" /\ given # <<>>)
                => sensor.rhAdjustment = given[1] /\ ~sensor.read
             /\ (sensor.err = "nil" /\ given = <<>>)
                => sensor.read /\ sensor.rhAdjustment = true - sensor.raw
    /\ (HTGDone("rh") /\ sensor.err = "nil") =>
          /\ sensor.result = sensor.raw + sensor.rhAdjustment
          /\ sensor.rhAdjustment = sensor.before
          /\ (sensor.cal.set /\ sensor.raw = sensor.cal.raw)
             => sensor.result = sensor.cal.true

\* an 'rh' that follows a calibration against the same raw reading
C32_Witness ==
    /\ HTGDone("rh") /\ sensor.err = "nil"
    /\ sensor.cal.set /\ sensor.raw = sensor.cal.raw
    /\ sensor.cal.true = 6000
    /\ sensor.result = 6000

\* C36: State.Valid is true exactly when 0 <= RH <= 100 and the
\* temperature lies between -40 and 80 (values in tenths).
C36_ValidIsSensorRange ==
    sensor.pc = "checked"
    => (sensor.valid <=> /\ 0 <= sensor.state.RH /\ sensor.state.RH <= 1000
                         /\ -400 <= sensor.state.Temp /\ sensor.state.Temp <= 800)

\* the frame is accepted exactly when byte 4 is the sum of bytes 0..3 modulo
\* 256, and is otherwise refused as an invalid checksum
ChecksumDecides ==
    LET v == sensor.vals IN
    /\ sensor.err = "nil" <=> v[5] = (v[1] + v[2] + v[3] + v[4]) % 256
    /\ sensor.err # "nil" => sensor.err = "invalid checksum"

\* the 15-bit value (byte 2 without its top bit):byte 3
Magnitude == (sensor.vals[3] % 128) * 256 + sensor.vals[4]

\* C37 as stated: Parse accepts a frame exactly when byte 4 equals the sum
\* of bytes 0..3 modulo 256; for an accepted frame RH is bytes0:bytes1 and
\* the temperature has the magnitude (byte 2 without its top bit):byte 3
\* and is negative exactly when the top bit of byte 2 is set.
C37_ParseNegativeIffTopBit ==
    sensor.pc = "parsed"
    => /\ ChecksumDecides
       /\ sensor.err = "nil"
          => /\ sensor.state.RH = sensor.vals[1] * 256 + sensor.vals[2]
             /\ sensor.state.Temp \in {Magnitude, -Magnitude}
             /\ sensor.state.Temp < 0 <=> sensor.vals[3] >= 128

\* C37 amended: as above, but the temperature is the magnitude with the
\* sign the top bit of byte 2 gives it: minus the magnitude when the bit is
\* set (which is zero, not negative, for a magnitude of zero).
C37_ParseSignMagnitude ==
    sensor.pc = "parsed"
    => /\ ChecksumDecides
       /\ sensor.err = "nil"
          => /\ sensor.state.RH = sensor.vals[1] * 256 + sensor.vals[2]
             /\ sensor.state.Temp = IF sensor.vals[3] >= 128
                                    THEN -Magnitude ELSE Magnitude

\* an accepted frame with the top bit set and a checksum that wrapped
C37_Witness ==
    /\ sensor.pc = "parsed" /\ sensor.err = "nil"
    /\ sensor.vals = <<2, 88, 130, 88, 52>>
    /\ sensor.state = [RH |-> 600, Temp |-> -600]

\* C38: WaitChange returns ok = true only with three samples that all
\* equal mode, taken in one round of the loop, and ok = false only once the
\* elapsed time it measured exceeds the timeout.
C38_OkOnlyWhenStable ==
    sensor.pc = "returned"
    => /\ sensor.ok => /\ sensor.a = sensor.mode
                       /\ sensor.b = sensor.mode
                       /\ sensor.c = sensor.mode
                       /\ sensor.elapsed <= sensor.timeout
       /\ ~sensor.ok => sensor.elapsed > sensor.timeout

\* a stable reading found after a round whose samples did not qualify
C38_Witness ==
    /\ sensor.pc = "returned" /\ sensor.ok /\ sensor.retried
    /\ sensor.a = sensor.mode /\ sensor.b = sensor.mode /\ sensor.c = sensor.mode

\* C33: Check calls on one sensor are mutually exclusive.  At most one
\* caller is between Lock and its return, where the pin operations of
\* Request and Read are, and that caller holds the mutex.
C33_CheckMutuallyExclusive ==
    /\ Cardinality(InCheck) <= 1
    /\ \A w \in InCheck : sensor.holder = w

\* one caller polls the pin while the other waits for the mutex
C33_Witness ==
    \E w, v \in Workers :
        /\ w # v
        /\ sensor.pc[w] = "wait" /\ sensor.wait > RequestWaits
        /\ sensor.pc[v] = "lock"

\* C34: every Check call eventually returns, whatever the pin does, and
\* has released the mutex when it has returned, so a later Check is not
\* blocked forever.
C34_CheckReturns ==
    \A w \in Workers :
        (sensor.pc[w] # "idle") ~> (sensor.pc[w] = "idle" /\ sensor.holder # w)

\* a caller has returned on a timed-out read, the mutex is free again and
\* the other caller is waiting for it
C34_Witness ==
    \E w, v \in Workers :
        /\ w # v
        /\ sensor.pc[w] = "idle" /\ sensor.ret[w].cause = "read"
        /\ sensor.holder = 0
        /\ sensor.pc[v] = "lock"

\* C35: Check returns a nil error only together with a valid measurement:
\* a failed handshake, a timed-out read, a wrong checksum and a state that
\* is not Valid all give a non-nil error.
C35_NilErrorOnlyWithMeasurement ==
    \A w \in Workers :
        (sensor.pc[w] = "idle" /\ sensor.ret[w].cause # "none")
        => (sensor.ret[w].err = "nil" <=> sensor.ret[w].cause = "ok")
====
